---- MODULE Spec2Model ----
(***************************************************************************)
(* Evacuator: the detection-and-evacuation pipeline.                       *)
(*                                                                         *)
(* One provider (a ticker-driven polling loop guarded by a try-lock, or    *)
(* the dummy provider's delayed task), one unbuffered termination channel, *)
(* one dispatcher that fans the event out to the registered handlers, and  *)
(* the supervisor (main) that waits for a signal and shuts down.           *)
(* Time is in seconds.                                                     *)
(***************************************************************************)
EXTENDS Integers, Sequences, FiniteSets, TLC

VARIABLES
    startPc,         \* main: position in start-up
    env,             \* the environment: provider list, where IsSupported holds,
                     \* and the handler constructors that succeed
    probed,          \* the providers whose IsSupported has been called, in order
    fatal,           \* the start-up step main exited at, and the error
    config,          \* the configuration (global snapshot once it is loaded)
    provider,        \* name of the provider DetectProvider selected
    handlers,        \* the handler list RegisterHandlers returned
    metadata,        \* the answers the instance metadata service may give
    now,             \* wall clock, seconds since the goroutines were spawned
    supPc,           \* main: position in the supervisor
    sigPending,      \* shutdownSignal (buffered, capacity 1) holds a signal
    cancelled,       \* rootCtx is cancelled
    wg,              \* main's sync.WaitGroup counter
    doneClosed,      \* main's `done` channel is closed
    shutdownDeadline,\* when time.After(GracefulShutdownTimeout) fires
    shutdownLog,     \* which shutdown branch main logged
    monPc,           \* the goroutine wrapping provider.StartMonitoring
    provPc,          \* the provider's polling loop
    mu,              \* the provider's sync.Mutex is held
    inFlight,        \* number of notice probes issued and not yet returned
    probeDead,       \* the in-flight probe was issued on a cancelled context
    answer,          \* the metadata service's answer to the in-flight probe
    provLog,         \* the last record the polling loop logged
    fetched,         \* the answers to the emission task's three field requests
    emPc,            \* the detached emission task (or the dummy delayed task)
    emEvent,         \* the event the emission task is about to send
    emitted,         \* number of completed sends on the termination channel
    emittedAfterCancel, \* a send completed while rootCtx was cancelled
    dispPc,          \* broadcastTerminationEvents: position in the loop
    event,           \* the dispatcher's `event` variable (captured by closures)
    hPc,             \* per handler task: position
    deadline,        \* per handler task: deadline of handlerCtx
    startedAt,       \* per handler task: time handlerCtx was created
    hSeen,           \* per handler: the event HandleTermination was called with
    started,         \* per handler: number of HandleTermination calls
    hErr,            \* per handler: the error HandleTermination returned
    results,         \* the buffered results channel
    resultsClosed,   \* results has been closed
    handlerWg,       \* handlerWg counter
    consumedLog,     \* results the aggregation loop has consumed for this event
    successCount,    \* the aggregation loop's counter
    summary,         \* the summary records logged so far
    reqPc,           \* doMetadataRequest: position in the call in progress
    reqCall,         \* number of doMetadataRequest calls made so far
    reqUrl,          \* the url argument of the call in progress
    reqToken,        \* the call's local variable `token`
    reqLog,          \* the HTTP requests the provider's client has issued
    reqResult        \* what the last call returned

vars == <<startPc, env, probed, fatal, config, provider, handlers, metadata, now, supPc, sigPending, cancelled, wg,
          doneClosed, shutdownDeadline, shutdownLog, monPc, provPc, mu,
          inFlight, probeDead, answer, provLog, fetched, emPc, emEvent, emitted, emittedAfterCancel,
          dispPc, event, hPc, deadline, startedAt, hSeen, started, hErr, results,
          resultsClosed, handlerWg, consumedLog, successCount, summary,
          reqPc, reqCall, reqUrl, reqToken, reqLog, reqResult>>

supVars  == <<supPc, sigPending, cancelled, wg, doneClosed, shutdownDeadline,
              shutdownLog, monPc>>
provVars == <<provPc, mu, inFlight, probeDead, answer, provLog, fetched, emPc,
              emEvent, emitted, emittedAfterCancel>>
dispVars == <<dispPc, event, results, resultsClosed, handlerWg, consumedLog,
              successCount, summary>>
taskVars == <<hPc, deadline, startedAt, hSeen, started, hErr>>
reqVars  == <<reqPc, reqCall, reqUrl, reqToken, reqLog, reqResult>>
startVars == <<startPc, env, probed, fatal, config, provider, handlers, metadata>>
statics  == <<startVars, reqVars>>

-----------------------------------------------------------------------------
(* Bounds of the model *)

\* configurations that register more than MaxHandlers handlers are left out
MaxHandlers == 2

\* a provider makes at most MaxFetches metadata requests
MaxFetches == 3

-----------------------------------------------------------------------------
(* Program constants *)

HandlerProcessingTimeout == 75

GracefulShutdownTimeout == 10

StatusOK == 200

StatusNotFound == 404

ProviderDummy == "dummy"
ProviderAWS == "aws"
ProviderAlicloud == "alicloud"
ProviderGcp == "gcp"
ProviderTencent == "tencent"
ProviderHuawei == "huawei"

TerminationReasonSpot == "spot termination"

NoEvent == [Hostname |-> "", PrivateIP |-> "", InstanceID |-> "", Reason |-> ""]

-----------------------------------------------------------------------------
(* The metadata service as the providers see it *)

\* bodies the notice endpoint may answer with
StopBody == "{action:stop}"
TerminateBody == "{action:terminate}"
HibernateBody == "{action:hibernate}"
ProbeBodies == {"", "TRUE", "FALSE", StopBody, TerminateBody, HibernateBody}

TransportError == [failed |-> TRUE, status |-> 0, body |-> ""]

\* no response has arrived (yet), or no request was made
NoAnswer == [failed |-> FALSE, status |-> 0, body |-> ""]

\* the answer "404 Not Found"
NotFound == [failed |-> FALSE, status |-> StatusNotFound, body |-> ""]

\* a record of the provider's logger: level, message and "error" attribute
Log(level, msg, e) == [level |-> level, msg |-> msg, err |-> e]

NoLog == Log("none", "", "nil")

\* the levels above info
AboveInfo == {"warn", "error"}

NoFetch == [Hostname |-> NoAnswer, PrivateIP |-> NoAnswer, InstanceID |-> NoAnswer]

HttpResponses(bodies) ==
    {TransportError}
        \cup {[failed |-> FALSE, status |-> StatusOK, body |-> b] : b \in bodies}
        \cup {[failed |-> FALSE, status |-> StatusNotFound, body |-> ""]}

\* a request that takes the body of an answer of any status
doMetadataRequestAnyStatus(res) ==
    IF res.failed THEN [body |-> "", err |-> "transport"]
    ELSE [body |-> res.body, err |-> "nil"]

\* doMetadataRequest: the body on status 200, an error otherwise
doMetadataRequest(res) ==
    IF res.failed THEN [body |-> "", err |-> "transport"]
    ELSE IF res.status # StatusOK THEN [body |-> "", err |-> "status"]
    ELSE [body |-> res.body, err |-> "nil"]

\* json.Unmarshal of the notice body into AwsResponseSpot
AwsUnmarshal(body) ==
    IF body = StopBody THEN [err |-> "nil", Action |-> "stop"]
    ELSE IF body = TerminateBody THEN [err |-> "nil", Action |-> "terminate"]
    ELSE IF body = HibernateBody THEN [err |-> "nil", Action |-> "hibernate"]
    ELSE [err |-> "json", Action |-> ""]

\* a detection that takes every instance action for a notice
AwsIsSpotTerminationDetectedAnyAction(res) ==
    LET r == doMetadataRequest(res)
        j == AwsUnmarshal(r.body)
    IN  IF r.err # "nil" THEN [detected |-> FALSE, err |-> r.err]
        ELSE IF j.err # "nil" THEN [detected |-> FALSE, err |-> "json"]
        ELSE [detected |-> TRUE, err |-> "nil"]

\* isSpotTerminationDetected of the AWS provider
AwsIsSpotTerminationDetected(res) ==
    LET r == doMetadataRequest(res)
        j == AwsUnmarshal(r.body)
    IN  IF r.err # "nil" THEN [detected |-> FALSE, err |-> r.err]
        ELSE IF j.err # "nil" THEN [detected |-> FALSE, err |-> "json"]
        ELSE IF j.Action # "stop" /\ j.Action # "terminate"
             THEN [detected |-> FALSE, err |-> "action"]
        ELSE [detected |-> TRUE, err |-> "nil"]

GcpIsSpotTerminationDetected(res) ==
    LET r == doMetadataRequest(res)
    IN  IF r.err # "nil" THEN [detected |-> FALSE, err |-> r.err]
        ELSE [detected |-> TRUE, err |-> "nil"]

\* AliCloud, Tencent and Huawei: the presence of a 200 answer is the notice
PresenceIsSpotTerminationDetected(res) ==
    LET r == doMetadataRequest(res)
    IN  IF r.err # "nil" THEN [detected |-> FALSE, err |-> r.err]
        ELSE [detected |-> TRUE, err |-> "nil"]

isSpotTerminationDetected(p, res) ==
    IF p = ProviderAWS THEN AwsIsSpotTerminationDetected(res)
    ELSE IF p = ProviderGcp THEN GcpIsSpotTerminationDetected(res)
    ELSE PresenceIsSpotTerminationDetected(res)

\* a field fetch that leaves the field empty when the request failed
MetadataFieldEmptyOnError(res) ==
    LET r == doMetadataRequest(res)
    IN  IF r.err # "nil" THEN "" ELSE r.body

\* one best-effort field of getInstanceMetadatas
MetadataField(res) ==
    LET r == doMetadataRequest(res)
    IN  IF r.err # "nil" THEN "unknown" ELSE r.body

getInstanceMetadatas(p, rh, rp, ri) ==
    [Hostname   |-> MetadataField(rh),
     PrivateIP  |-> MetadataField(rp),
     InstanceID |-> IF p = ProviderHuawei THEN "unknown" ELSE MetadataField(ri),
     Reason     |-> TerminationReasonSpot]

\* a dummy event without the instance ID
DummyEventNoInstanceID ==
    [Hostname |-> "dummy", PrivateIP |-> "172.16.1.1",
     InstanceID |-> "", Reason |-> TerminationReasonSpot]

\* the event the dummy provider sends
DummyEvent ==
    [Hostname |-> "dummy", PrivateIP |-> "172.16.1.1",
     InstanceID |-> "dummy-instance-id", Reason |-> TerminationReasonSpot]

HostnameBodies == {"", "ip-10-0-0-5.ec2.internal"}
PrivateIPBodies == {"10.0.0.5"}
InstanceIDBodies == {"", "i-0abc"}

-----------------------------------------------------------------------------
(* Configuration, provider list and handler registry *)

\* the providers main registers, in insertion order
providers == <<ProviderAWS, ProviderAlicloud, ProviderDummy>>

\* the names of the registered providers
Registered == {providers[i] : i \in 1..Len(providers)}

NodeNames == {"", "worker-17"}

\* provider.name values: unset, registered names (also in another case), and
\* the name of a provider main does not register
ProviderNames == {"", "aws", "AWS", "alicloud", "dummy", "gcp"}

\* provider.poll_interval values (seconds), around both ends of the range
PollIntervals == {2, 3, 10, 11}

\* provider.request_timeout values (seconds): the default and both ends of the range
RequestTimeouts == {0, 1, 2, 5, 6}

\* handler.processing_timeout values (seconds), around the upper end
ProcessingTimeouts == {5, 75, 76}

BotTokens == {"", "123456:ABC-DEF1234ghIkl-zyx57W2v1u123ew11"}

ChatIDs == {"", "-1001234", "@evacuator_alerts"}

Kubeconfigs == {"", "/etc/evacuator/kubeconfig"}

\* the Config struct after Unmarshal and parseDurationFields
Configs ==
    [NodeName          : NodeNames,
     ProviderName      : ProviderNames,
     AutoDetect        : BOOLEAN,
     PollInterval      : PollIntervals,
     RequestTimeout    : RequestTimeouts,
     ProcessingTimeout : ProcessingTimeouts,
     KubernetesEnabled : BOOLEAN,
     Kubeconfig        : Kubeconfigs,
     InCluster         : BOOLEAN,
     TelegramEnabled   : BOOLEAN,
     BotToken          : BotTokens,
     ChatID            : ChatIDs,
     NomadEnabled      : BOOLEAN]

\* the values setDefaults gives the settings a scenario leaves alone
DefaultSettings(c) ==
    /\ c.AutoDetect
    /\ c.PollInterval = 3
    /\ c.RequestTimeout = 2
    /\ c.Kubeconfig = ""
    /\ c.InCluster

\* the Telegram credentials are set when the handler is enabled
TelegramConfigured(c) ==
    /\ c.BotToken = IF c.TelegramEnabled THEN "123456:ABC-DEF1234ghIkl-zyx57W2v1u123ew11" ELSE ""
    /\ c.ChatID = IF c.TelegramEnabled THEN "-1001234" ELSE ""

\* validateConfig: provider
validateProvider(c) ==
    IF c.ProviderName = "" /\ ~c.AutoDetect
    THEN "provider.name must be set" ELSE "nil"

\* a duration check without the upper ends of the ranges
validateDurationsLowerOnly(c) ==
    IF c.PollInterval < 3
    THEN "provider.poll_interval must be between 3s and 10s"
    ELSE IF c.RequestTimeout < 1
    THEN "provider.request_timeout must be between 1s and 5s"
    ELSE "nil"

\* validateConfig: duration things
validateDurations(c) ==
    IF c.PollInterval < 3 \/ c.PollInterval > 10
    THEN "provider.poll_interval must be between 3s and 10s"
    ELSE IF c.RequestTimeout < 1 \/ c.RequestTimeout > 5
    THEN "provider.request_timeout must be between 1s and 5s"
    ELSE IF c.ProcessingTimeout > 75
    THEN "handler.processing_timeout more than 75s that makes it ineffective"
    ELSE "nil"

\* validateConfig: telegram
validateTelegram(c) ==
    IF c.TelegramEnabled /\ (c.BotToken = "" /\ c.ChatID = "")
    THEN "handler.telegram.bot_token and handler.telegram.chat_id must be set"
    ELSE "nil"

\* validateConfig: kubernetes
validateKubernetes(c) ==
    IF c.KubernetesEnabled /\ (c.Kubeconfig = "" /\ ~c.InCluster)
    THEN "handler.kubernetes.kubeconfig must be set if not running in-cluster"
    ELSE "nil"

\* a validation that lets both orchestrators be enabled
validateNomadNever(c) == "nil"

\* validateConfig: nomad
validateNomad(c) ==
    IF c.KubernetesEnabled /\ c.NomadEnabled
    THEN "handler.kubernetes and handler.nomad cannot be enabled at the same time"
    ELSE "nil"

\* validateConfig: the first check that fails gives the error, "nil" if none
validateConfig(c) ==
    IF validateProvider(c) # "nil" THEN validateProvider(c)
    ELSE IF validateDurations(c) # "nil" THEN validateDurations(c)
    ELSE IF validateTelegram(c) # "nil" THEN validateTelegram(c)
    ELSE IF validateKubernetes(c) # "nil" THEN validateKubernetes(c)
    ELSE validateNomad(c)

\* telego.NewBot(botToken): the token has the form <digits>:<35 characters>
NewBot(token) ==
    IF token = "123456:ABC-DEF1234ghIkl-zyx57W2v1u123ew11" THEN "nil" ELSE "invalid token"

\* strconv.ParseInt(chatID, 10, 64)
ParseInt(str) ==
    IF str = "-1001234" THEN [val |-> -1001234, err |-> "nil"]
    ELSE [val |-> 0, err |-> "invalid syntax"]

\* a constructor that takes the chat ID as it is written
NewTelegramHandlerNoParse(botToken, chatID) ==
    IF NewBot(botToken) # "nil" THEN "failed to create telegram bot"
    ELSE "nil"

\* NewTelegramHandler: the error it returns, "nil" when it built the handler
NewTelegramHandler(botToken, chatID) ==
    IF NewBot(botToken) # "nil" THEN "failed to create telegram bot"
    ELSE IF ParseInt(chatID).err # "nil" THEN "invalid chat ID format"
    ELSE "nil"

\* a registered handler: its name, and whether the value appended is the nil
\* pointer a failed constructor returned
Handler(n, ok) == [name |-> n, isNil |-> ~ok]

\* a registry that registers the dummy handler for every provider
RegisterHandlersAlwaysEcho(c, ctorOk) ==
    LET h0 == <<Handler("dummy", TRUE)>>
        h1 == IF c.KubernetesEnabled
              THEN Append(h0, Handler("kubernetes", "kubernetes" \in ctorOk)) ELSE h0
        h2 == IF c.TelegramEnabled
              THEN Append(h1, Handler("telegram",
                                      NewTelegramHandler(c.BotToken, c.ChatID) = "nil"))
              ELSE h1
        h3 == IF c.NomadEnabled
              THEN Append(h2, Handler("nomad", "nomad" \in ctorOk)) ELSE h2
    IN  [handlers |-> h3, err |-> Len(h3) = 0]

\* RegisterHandlers: ctorOk is the set of handler names whose constructor
\* succeeds in this environment (cluster credentials, Nomad client settings);
\* the Telegram constructor depends on the configuration alone
RegisterHandlers(c, ctorOk) ==
    LET h0 == IF c.ProviderName = "dummy" THEN <<Handler("dummy", TRUE)>> ELSE <<>>
        h1 == IF c.KubernetesEnabled
              THEN Append(h0, Handler("kubernetes", "kubernetes" \in ctorOk)) ELSE h0
        h2 == IF c.TelegramEnabled
              THEN Append(h1, Handler("telegram",
                                      NewTelegramHandler(c.BotToken, c.ChatID) = "nil"))
              ELSE h1
        h3 == IF c.NomadEnabled
              THEN Append(h2, Handler("nomad", "nomad" \in ctorOk)) ELSE h2
    IN  [handlers |-> h3, err |-> Len(h3) = 0]

AllCtorsOk == {"kubernetes", "nomad"}

-----------------------------------------------------------------------------
(* Provider selection: DetectProvider *)

\* the lower-case form of the provider names of the model
ToLower(n) == IF n = "AWS" THEN "aws" ELSE n

\* strings.EqualFold on provider names
EqualFold(a, b) == ToLower(a) = ToLower(b)

\* the least element of a non-empty set of indices
First(S) == CHOOSE i \in S : \A j \in S : i <= j

\* the result of DetectProvider: the provider returned ("nil": none) and the
\* providers whose IsSupported it called, in call order
Detection(p, calls) == [provider |-> p, probed |-> calls]

\* an auto-detection that returns the last supported provider of the list
DetectAutoLast(ps, sup) ==
    LET S == {i \in 1..Len(ps) : ps[i] \in sup}
    IN  IF S = {} THEN Detection("nil", ps)
        ELSE Detection(ps[CHOOSE i \in S : \A j \in S : i >= j], ps)

\* DetectProvider, the auto-detection loop: the first provider of the list
\* whose IsSupported returns true; sup is where IsSupported returns true
DetectAuto(ps, sup) ==
    LET S == {i \in 1..Len(ps) : ps[i] \in sup}
    IN  IF S = {} THEN Detection("nil", ps)
        ELSE Detection(ps[First(S)], SubSeq(ps, 1, First(S)))

\* a strict selection that falls back to auto-detection on a mismatch
DetectConfiguredOrAuto(ps, name, sup) ==
    LET M == {i \in 1..Len(ps) : EqualFold(ps[i], name)}
    IN  IF M # {} /\ ps[First(M)] \in sup
        THEN Detection(ps[First(M)], <<ps[First(M)]>>)
        ELSE DetectAuto(ps, sup)

\* DetectProvider, the branch for a configured provider name
DetectConfigured(ps, name, sup) ==
    LET M == {i \in 1..Len(ps) : EqualFold(ps[i], name)}
    IN  IF M = {} THEN Detection("nil", <<>>)
        ELSE IF ps[First(M)] \in sup
        THEN Detection(ps[First(M)], <<ps[First(M)]>>)
        ELSE Detection("nil", <<ps[First(M)]>>)

\* a selector that auto-detects whenever no name is configured
DetectProviderIgnoringFlag(ps, c, sup) ==
    IF c.ProviderName # "" THEN DetectConfigured(ps, c.ProviderName, sup)
    ELSE DetectAuto(ps, sup)

\* DetectProvider(ctx, providers, logger) under configuration c
DetectProvider(ps, c, sup) ==
    IF c.ProviderName # "" THEN DetectConfigured(ps, c.ProviderName, sup)
    ELSE IF ~c.AutoDetect THEN Detection("nil", <<>>)
    ELSE DetectAuto(ps, sup)

\* the environments of the model: the provider list handed to DetectProvider
\* (the one main builds, and its cloud providers alone), where IsSupported
\* returns true (the dummy provider's always does), and the handler
\* constructors that succeed
ProviderLists == {providers, SubSeq(providers, 1, 2)}

\* the node names of a Nomad cluster in which this host is registered under
\* the hostname its events carry
RegisteredNodes == {"ip-10-0-0-5.ec2.internal", "dummy", "nomad-client-2"}

\* the node names of a Nomad cluster that does not know this host's hostname
OtherNodes == {"nomad-client-1", "nomad-client-2"}

Envs ==
    [providers : ProviderLists,
     supported : {S \cup {ProviderDummy} : S \in SUBSET {ProviderAWS, ProviderAlicloud}},
     ctorOk    : {AllCtorsOk},
     nomadNodes : {RegisteredNodes}]

\* the environment of a host of the configured provider
HostOf(c) ==
    [providers |-> providers,
     supported |-> {ToLower(c.ProviderName), ProviderDummy},
     ctorOk    |-> AllCtorsOk,
     nomadNodes |-> RegisteredNodes]

\* the metadata service answers every field request with a proper value
HealthyMetadata ==
    [Hostname   |-> {[failed |-> FALSE, status |-> StatusOK, body |-> "ip-10-0-0-5.ec2.internal"]},
     PrivateIP  |-> {[failed |-> FALSE, status |-> StatusOK, body |-> "10.0.0.5"]},
     InstanceID |-> {[failed |-> FALSE, status |-> StatusOK, body |-> "i-0abc"]}]

\* the metadata service may fail, answer 404, or answer 200 with any body
UnreliableMetadata ==
    [Hostname   |-> HttpResponses(HostnameBodies),
     PrivateIP  |-> HttpResponses(PrivateIPBodies),
     InstanceID |-> HttpResponses(InstanceIDBodies)]

\* Start-up scenarios: a loaded configuration, the constructors that succeed
\* and the metadata service's behaviour.
\* (1) every provider with every handler selection, default settings
HandlerScenarios ==
    {[config |-> c, ctorOk |-> AllCtorsOk, metadata |-> HealthyMetadata] :
        c \in {d \in Configs : /\ d.NodeName = "" /\ d.ProcessingTimeout = 75
                               /\ d.ProviderName \in Registered
                               /\ DefaultSettings(d) /\ TelegramConfigured(d)}}

\* (2) node-name override and a shorter processing timeout
SettingScenarios ==
    {[config |-> c, ctorOk |-> AllCtorsOk, metadata |-> HealthyMetadata] :
        c \in {d \in Configs : /\ d.ProviderName = ProviderAWS
                               /\ d.KubernetesEnabled /\ d.TelegramEnabled
                               /\ ~d.NomadEnabled
                               /\ DefaultSettings(d) /\ TelegramConfigured(d)}}

\* (3) an unreliable metadata service
MetadataScenarios ==
    {[config |-> c, ctorOk |-> AllCtorsOk, metadata |-> UnreliableMetadata] :
        c \in {d \in Configs : /\ d.ProviderName \in {ProviderAWS, ProviderAlicloud}
                               /\ d.NodeName = "" /\ d.ProcessingTimeout = 75
                               /\ ~d.KubernetesEnabled /\ d.TelegramEnabled
                               /\ ~d.NomadEnabled
                               /\ DefaultSettings(d) /\ TelegramConfigured(d)}}

Scenarios == HandlerScenarios \cup SettingScenarios \cup MetadataScenarios

H == 1..Len(handlers)

\* handlers whose HandleTermination passes its context on to its client calls
HonoursCtx(n) == n \in {"kubernetes", "telegram"}

-----------------------------------------------------------------------------
(* Initial state: main has loaded the configuration, registered the handlers,
   selected the provider and created the termination channel *)

\* no goroutine has been spawned yet
Idle ==
    /\ now = 0
    /\ supPc = "spawnMonitor"
    /\ sigPending = FALSE
    /\ cancelled = FALSE
    /\ wg = 0
    /\ doneClosed = FALSE
    /\ shutdownDeadline = 0
    /\ shutdownLog = "none"
    /\ monPc = "none"
    /\ provPc = "none"
    /\ mu = FALSE
    /\ inFlight = 0
    /\ probeDead = FALSE
    /\ answer = NoAnswer
    /\ provLog = NoLog
    /\ fetched = NoFetch
    /\ emPc = "none"
    /\ emEvent = NoEvent
    /\ emitted = 0
    /\ emittedAfterCancel = FALSE
    /\ dispPc = "none"
    /\ event = NoEvent
    /\ hPc = [h \in H |-> "none"]
    /\ deadline = [h \in H |-> 0]
    /\ startedAt = [h \in H |-> 0]
    /\ hSeen = [h \in H |-> NoEvent]
    /\ started = [h \in H |-> 0]
    /\ hErr = [h \in H |-> "none"]
    /\ results = <<>>
    /\ resultsClosed = FALSE
    /\ handlerWg = 0
    /\ consumedLog = <<>>
    /\ successCount = 0
    /\ summary = <<>>
    /\ reqPc = "idle"
    /\ reqCall = 0
    /\ reqUrl = ""
    /\ reqToken = ""
    /\ reqLog = <<>>
    /\ reqResult = [body |-> "", err |-> "nil"]

\* a start-up error: the step main exits at and the error it reports
Fatal(step, e) == [at |-> step, err |-> e]

NoError == Fatal("none", "nil")

Init ==
    /\ \E s \in Scenarios :
          LET r == RegisterHandlers(s.config, s.ctorOk)
              e == HostOf(s.config)
              d == DetectProvider(e.providers, s.config, e.supported)
          IN  /\ validateConfig(s.config) = "nil"
              /\ ~r.err
              /\ d.provider # "nil"
              /\ Len(r.handlers) <= MaxHandlers
              /\ config = s.config
              /\ env = e
              /\ probed = d.probed
              /\ provider = d.provider
              /\ handlers = r.handlers
              /\ metadata = s.metadata
    /\ startPc = "running"
    /\ fatal = NoError
    /\ Idle

\* the process is running: main has not returned and no goroutine panicked
Up == supPc \notin {"exited", "panicked"}

-----------------------------------------------------------------------------
(* Start-up: main up to the creation of the termination channel *)

\* (1) load: every combination of the validated settings, on an AWS host
LoadScenarios ==
    {[config |-> c, env |-> HostOf([c EXCEPT !.ProviderName = ProviderAWS])] :
        c \in {d \in Configs : d.NodeName = "" /\ d.ProviderName \in {"", "aws"}}}

\* (2) selection: every provider name and auto-detect flag in every environment
SelectScenarios ==
    {[config |-> c, env |-> e] :
        c \in {d \in Configs : /\ d.NodeName = "" /\ d.ProcessingTimeout = 75
                               /\ d.PollInterval = 3 /\ d.RequestTimeout = 2
                               /\ d.Kubeconfig = "" /\ d.InCluster
                               /\ ~d.KubernetesEnabled /\ ~d.NomadEnabled
                               /\ d.TelegramEnabled /\ TelegramConfigured(d)},
        e \in Envs}

\* (3) registration: every handler selection with every combination of
\* constructors that succeed
RegisterScenarios ==
    {[config |-> c, env |-> [HostOf(c) EXCEPT !.ctorOk = ok]] :
        c \in {d \in Configs : /\ d.NodeName = "" /\ d.ProcessingTimeout = 75
                               /\ d.ProviderName \in {ProviderAWS, ProviderDummy}
                               /\ DefaultSettings(d) /\ TelegramConfigured(d)},
        ok \in SUBSET AllCtorsOk}

StartScenarios == LoadScenarios \cup SelectScenarios \cup RegisterScenarios

\* main has parsed its flags and unmarshalled the configuration
StartInit ==
    /\ \E s \in StartScenarios :
          /\ config = s.config
          /\ env = s.env
    /\ startPc = "load"
    /\ probed = <<>>
    /\ fatal = NoError
    /\ provider = "nil"
    /\ handlers = <<>>
    /\ metadata = HealthyMetadata
    /\ Idle

\* LoadConfig: validateConfig; on an error main prints it and exits
StartLoad ==
    /\ startPc = "load"
    /\ IF validateConfig(config) # "nil"
       THEN /\ fatal' = Fatal("load", validateConfig(config))
            /\ startPc' = "exited"
       ELSE /\ fatal' = fatal
            /\ startPc' = "register"
    /\ UNCHANGED <<env, probed, config, provider, handlers, metadata>>
    /\ UNCHANGED <<now, supVars, provVars, dispVars, taskVars, reqVars>>

\* handlerRegistry.RegisterHandlers(); on an error main logs it and exits
StartRegister ==
    /\ startPc = "register"
    /\ LET r == RegisterHandlers(config, env.ctorOk)
       IN  IF r.err
           THEN /\ fatal' = Fatal("register", "no handlers registered")
                /\ startPc' = "exited"
                /\ handlers' = handlers
           ELSE /\ fatal' = fatal
                /\ startPc' = "detect"
                /\ handlers' = r.handlers
    /\ UNCHANGED <<env, probed, config, provider, metadata>>
    /\ UNCHANGED <<now, supVars, provVars, dispVars, taskVars, reqVars>>

\* provider := DetectProvider(rootCtx, providers, logger); nil is fatal
StartDetect ==
    /\ startPc = "detect"
    /\ LET d == DetectProvider(env.providers, config, env.supported)
       IN  /\ probed' = d.probed
           /\ IF d.provider = "nil"
              THEN /\ fatal' = Fatal("detect", "no supported provider detected")
                   /\ startPc' = "exited"
                   /\ provider' = provider
              ELSE /\ fatal' = fatal
                   /\ startPc' = "running"
                   /\ provider' = d.provider
    /\ UNCHANGED <<env, config, handlers, metadata>>
    /\ UNCHANGED <<now, supVars, provVars, dispVars, taskVars, reqVars>>

\* the providers declared in provider.go
Implemented ==
    {ProviderDummy, ProviderAWS, ProviderAlicloud, ProviderGcp, ProviderTencent}

\* Monitoring of any implemented provider: the provider is handed the root
\* context and the termination channel as main hands them to the provider it
\* selected; the Telegram handler is the one handler registered
MonInit ==
    /\ \E c \in {d \in Configs : /\ d.NodeName = "" /\ d.ProcessingTimeout = 75
                                  /\ d.ProviderName = ""
                                  /\ ~d.KubernetesEnabled /\ ~d.NomadEnabled
                                  /\ d.TelegramEnabled
                                  /\ DefaultSettings(d) /\ TelegramConfigured(d)},
          p \in Implemented,
          m \in {HealthyMetadata, UnreliableMetadata} :
          /\ config = c
          /\ env = [providers |-> <<p>>, supported |-> {p}, ctorOk |-> AllCtorsOk,
                    nomadNodes |-> RegisteredNodes]
          /\ probed = <<p>>
          /\ provider = p
          /\ handlers = RegisterHandlers(c, AllCtorsOk).handlers
          /\ metadata = m
    /\ startPc = "running"
    /\ fatal = NoError
    /\ Idle

\* The pipeline with the Nomad handler, in a cluster that has the host under
\* its hostname and in one that has not
NomadInit ==
    /\ \E c \in {d \in Configs : /\ d.NodeName = "" /\ d.ProcessingTimeout = 75
                                  /\ d.ProviderName \in {ProviderAWS, ProviderDummy}
                                  /\ ~d.KubernetesEnabled /\ ~d.TelegramEnabled
                                  /\ d.NomadEnabled
                                  /\ DefaultSettings(d) /\ TelegramConfigured(d)},
          nodes \in {RegisteredNodes, OtherNodes, {}} :
          LET e == [HostOf(c) EXCEPT !.nomadNodes = nodes]
              d == DetectProvider(e.providers, c, e.supported)
          IN  /\ validateConfig(c) = "nil"
              /\ config = c
              /\ env = e
              /\ probed = d.probed
              /\ provider = d.provider
              /\ handlers = RegisterHandlers(c, e.ctorOk).handlers
              /\ metadata = HealthyMetadata
    /\ startPc = "running"
    /\ fatal = NoError
    /\ Idle

StartNext ==
    \/ StartLoad
    \/ StartRegister
    \/ StartDetect

StartSpec == StartInit /\ [][StartNext]_vars

-----------------------------------------------------------------------------
(* Supervisor (main) *)

\* wg.Add(1); go func() { defer wg.Done(); provider.StartMonitoring(...) }()
\* followed by signal.Notify
SupSpawnMonitor ==
    /\ supPc = "spawnMonitor"
    /\ wg' = wg + 1
    /\ monPc' = "ready"
    /\ supPc' = "spawnDispatcher"
    /\ UNCHANGED <<sigPending, cancelled, doneClosed, shutdownDeadline, shutdownLog>>
    /\ UNCHANGED <<statics, now, provVars, dispVars, taskVars>>

\* wg.Add(1); go func() { defer wg.Done(); broadcastTerminationEvents(...) }()
SupSpawnDispatcher ==
    /\ supPc = "spawnDispatcher"
    /\ wg' = wg + 1
    /\ dispPc' = "select"
    /\ supPc' = "waitSignal"
    /\ UNCHANGED <<sigPending, cancelled, doneClosed, shutdownDeadline, shutdownLog, monPc>>
    /\ UNCHANGED <<statics, now, provVars, taskVars>>
    /\ UNCHANGED <<event, results, resultsClosed, handlerWg, consumedLog,
                   successCount, summary>>

\* the operating system delivers SIGINT or SIGTERM (after signal.Notify)
Signal ==
    /\ supPc \in {"spawnDispatcher", "waitSignal"}
    /\ ~sigPending
    /\ sigPending' = TRUE
    /\ UNCHANGED <<supPc, cancelled, wg, doneClosed, shutdownDeadline, shutdownLog, monPc>>
    /\ UNCHANGED <<statics, now, provVars, dispVars, taskVars>>

\* a blocking wait that the dispatcher's summary ends as well
SupUnblockedOrDispatched == sigPending \/ Len(summary) >= 1

\* the guard of main's blocking wait: <-shutdownSignal
SupUnblocked == sigPending

\* <-shutdownSignal returns; rootCancel(); go func() { wg.Wait(); close(done) }();
\* main then enters the select, which arms time.After(GracefulShutdownTimeout)
SupShutdown ==
    /\ supPc = "waitSignal"
    /\ SupUnblocked
    /\ sigPending' = FALSE
    /\ cancelled' = TRUE
    /\ shutdownDeadline' = now + GracefulShutdownTimeout
    /\ supPc' = "shutdownWait"
    /\ UNCHANGED <<wg, doneClosed, shutdownLog, monPc>>
    /\ UNCHANGED <<statics, now, provVars, dispVars, taskVars>>

\* the waiter goroutine: wg.Wait() returned, close(done)
WaiterClose ==
    /\ supPc = "shutdownWait"
    /\ wg = 0
    /\ ~doneClosed
    /\ doneClosed' = TRUE
    /\ UNCHANGED <<supPc, sigPending, cancelled, wg, shutdownDeadline, shutdownLog, monPc>>
    /\ UNCHANGED <<statics, now, provVars, dispVars, taskVars>>

\* select: case <-done
SupAllStopped ==
    /\ supPc = "shutdownWait"
    /\ doneClosed
    /\ shutdownLog' = "all goroutines stopped successfully"
    /\ supPc' = "exited"
    /\ UNCHANGED <<sigPending, cancelled, wg, doneClosed, shutdownDeadline, monPc>>
    /\ UNCHANGED <<statics, now, provVars, dispVars, taskVars>>

\* a final wait without the timeout branch
ShutdownTimerNever == FALSE

\* the timer of the final select has fired
ShutdownTimerFired == now >= shutdownDeadline

\* select: case <-time.After(GracefulShutdownTimeout)
SupTimeout ==
    /\ supPc = "shutdownWait"
    /\ ShutdownTimerFired
    /\ shutdownLog' = "timeout waiting for goroutines to stop"
    /\ supPc' = "exited"
    /\ UNCHANGED <<sigPending, cancelled, wg, doneClosed, shutdownDeadline, monPc>>
    /\ UNCHANGED <<statics, now, provVars, dispVars, taskVars>>

-----------------------------------------------------------------------------
(* Provider: StartMonitoring and the polling loop *)

\* the goroutine main spawned calls provider.StartMonitoring, which spawns the
\* polling task (the dummy provider: the delayed task) and returns; wg.Done()
MonitorStart ==
    /\ Up
    /\ monPc = "ready"
    /\ monPc' = "done"
    /\ wg' = wg - 1
    /\ IF provider = ProviderDummy
       THEN /\ emPc' = "sleep"
            /\ provPc' = "done"
       ELSE /\ provPc' = "select"
            /\ emPc' = "none"
    /\ UNCHANGED <<supPc, sigPending, cancelled, doneClosed, shutdownDeadline, shutdownLog>>
    /\ UNCHANGED <<mu, inFlight, probeDead, answer, provLog, fetched, emEvent,
                   emitted, emittedAfterCancel>>
    /\ UNCHANGED <<statics, now, dispVars, taskVars>>

\* an unlock that leaves the lock as it is
UnlockNothing(held) == held

\* p.mu.Unlock()
Unlock(held) == FALSE

\* a polling loop that unlocks before it returns
ReleasedAfterSpawn(held) == FALSE

\* the lock when the polling loop returns after spawning the emission task:
\* the loop does not touch it
HeldAfterSpawn(held) == held

\* a try-lock that reports success without taking the lock
TryLockNoAcquire(held) == [ok |-> TRUE, held |-> held]

\* p.mu.TryLock(): whether it succeeded, and the lock afterwards
TryLock(held) == [ok |-> ~held, held |-> TRUE]

\* case <-ticker.C: try the lock; on success issue the notice probe
ProvTick ==
    /\ Up
    /\ provPc = "select"
    /\ IF TryLock(mu).ok
       THEN /\ mu' = TryLock(mu).held
            /\ inFlight' = inFlight + 1
            /\ probeDead' = cancelled
            /\ provPc' = "probe"
            /\ provLog' = provLog
       ELSE /\ provLog' = Log("debug", "spot termination check already in progress, skipping", "nil")
            /\ UNCHANGED <<mu, inFlight, probeDead, provPc>>
    /\ UNCHANGED <<answer, fetched, emPc, emEvent, emitted, emittedAfterCancel>>
    /\ UNCHANGED <<statics, now, supVars, dispVars, taskVars>>

\* a polling loop that keeps polling after it has spawned the emission task
AfterSpawnKeepPolling == "select"

\* what the polling loop does after it has spawned the emission task
AfterSpawn == "done"

\* a polling loop that returns when a probe has failed
AfterFailedProbeStop == "done"

\* what the polling loop does after a probe that failed: continue
AfterFailedProbe == "select"

\* the metadata service answers the probe in flight (a request made on a
\* cancelled context fails)
MetadataAnswer ==
    /\ Up
    /\ provPc = "probe"
    /\ answer = NoAnswer
    /\ \E res \in HttpResponses(ProbeBodies) :
          /\ probeDead => res = TransportError
          /\ answer' = res
    /\ UNCHANGED <<provPc, mu, inFlight, probeDead, provLog, fetched, emPc, emEvent,
                   emitted, emittedAfterCancel>>
    /\ UNCHANGED <<statics, now, supVars, dispVars, taskVars>>

\* isSpotTerminationDetected returns on the answer: error -> log it, unlock,
\* continue; notice -> spawn the emission task (the lock stays held) and
\* return; else unlock
ProvProbeReturn ==
    /\ Up
    /\ provPc = "probe"
    /\ answer # NoAnswer
    /\ LET d == isSpotTerminationDetected(provider, answer)
       IN  IF d.err # "nil"
           THEN /\ provLog' = Log("error", "failed to detect spot termination", d.err)
                /\ mu' = Unlock(mu)
                /\ provPc' = AfterFailedProbe
                /\ emPc' = emPc
           ELSE IF d.detected
           THEN /\ provLog' = Log("info", "spot termination detected", "nil")
                /\ emPc' = "fetch"
                /\ provPc' = AfterSpawn
                /\ mu' = HeldAfterSpawn(mu)
           ELSE /\ provLog' = provLog
                /\ mu' = Unlock(mu)
                /\ provPc' = "select"
                /\ emPc' = emPc
    /\ answer' = NoAnswer
    /\ inFlight' = inFlight - 1
    /\ probeDead' = FALSE
    /\ UNCHANGED <<fetched, emEvent, emitted, emittedAfterCancel>>
    /\ UNCHANGED <<statics, now, supVars, dispVars, taskVars>>

\* case <-ctx.Done(): return
ProvCtxDone ==
    /\ Up
    /\ provPc = "select"
    /\ cancelled
    /\ provPc' = "done"
    /\ UNCHANGED <<mu, inFlight, probeDead, answer, provLog, fetched, emPc, emEvent,
                   emitted, emittedAfterCancel>>
    /\ UNCHANGED <<statics, now, supVars, dispVars, taskVars>>

\* the answers a field request may get now: a request made on a cancelled
\* context fails
FieldAnswers(answers) == IF cancelled THEN {TransportError} ELSE answers

\* the detached task: t := p.getInstanceMetadatas(ctx)
EmitFetch ==
    /\ Up
    /\ emPc = "fetch"
    /\ \E rh \in FieldAnswers(metadata.Hostname),
          rp \in FieldAnswers(metadata.PrivateIP),
          ri \in IF provider = ProviderHuawei THEN {NoAnswer}
                 ELSE FieldAnswers(metadata.InstanceID) :
          /\ fetched' = [Hostname |-> rh, PrivateIP |-> rp, InstanceID |-> ri]
          /\ emEvent' = getInstanceMetadatas(provider, rh, rp, ri)
    /\ emPc' = "send"
    /\ UNCHANGED <<provPc, mu, inFlight, probeDead, answer, provLog, emitted,
                   emittedAfterCancel>>
    /\ UNCHANGED <<statics, now, supVars, dispVars, taskVars>>

\* the dummy provider's task: time.Sleep(p.DetectionWait) is over
DummyWake ==
    /\ Up
    /\ emPc = "sleep"
    /\ emEvent' = DummyEvent
    /\ emPc' = "send"
    /\ UNCHANGED <<provPc, mu, inFlight, probeDead, answer, provLog, fetched, emitted,
                   emittedAfterCancel>>
    /\ UNCHANGED <<statics, now, supVars, dispVars, taskVars>>

\* an emission task whose send is never offered to the dispatcher's select
SendNeverOffered == FALSE

\* the sender's side of e <- t: is the emission task ready to send
SendReady == emPc = "send"

\* defer p.mu.Unlock() of the detached task, after the send has completed
EmitUnlock ==
    /\ Up
    /\ emPc = "sent"
    /\ mu' = Unlock(mu)
    /\ emPc' = "done"
    /\ UNCHANGED <<provPc, inFlight, probeDead, answer, provLog, fetched, emEvent,
                   emitted, emittedAfterCancel>>
    /\ UNCHANGED <<statics, now, supVars, dispVars, taskVars>>

-----------------------------------------------------------------------------
(* Provider: one metadata request, doMetadataRequest with getMetadataToken *)

\* the providers whose metadata service wants a session token
TokenAuth == {ProviderAWS, ProviderAlicloud, ProviderHuawei}

\* the endpoints a provider requests
MetadataUrls == {"spot", "hostname", "private-ip", "instance-id"}

\* what the token endpoint may answer to the PUT of call n: no answer, a
\* fresh token, or an HTTP error without a token
TokenAnswers(n) ==
    {TransportError,
     [failed |-> FALSE, status |-> StatusOK, body |-> "token-" \o ToString(n)],
     [failed |-> FALSE, status |-> StatusNotFound, body |-> ""]}

\* getMetadataToken: the body of the answer whatever its status, an error when
\* the request failed
getMetadataToken(res) ==
    IF res.failed THEN [token |-> "", err |-> "transport"]
    ELSE [token |-> res.body, err |-> "nil"]

\* a request that asks for a token only when it holds none
NeedsTokenWhenNone(held) == held = ""

\* doMetadataRequest asks for a token on every call
NeedsToken(held) == TRUE

\* a record of the request log
Request(method, call, url, ok, status, token) ==
    [method |-> method, call |-> call, url |-> url, ok |-> ok, status |-> status,
     token |-> token]

\* a provider's monitoring, as far as its metadata requests go
FetchInit ==
    /\ \E c \in {d \in Configs : /\ d.NodeName = "" /\ d.ProcessingTimeout = 75
                                  /\ d.ProviderName = ""
                                  /\ ~d.KubernetesEnabled /\ ~d.NomadEnabled
                                  /\ d.TelegramEnabled
                                  /\ DefaultSettings(d) /\ TelegramConfigured(d)},
          p \in TokenAuth :
          /\ config = c
          /\ env = [providers |-> <<p>>, supported |-> {p}, ctorOk |-> AllCtorsOk,
                    nomadNodes |-> RegisteredNodes]
          /\ probed = <<p>>
          /\ provider = p
          /\ handlers = RegisterHandlers(c, AllCtorsOk).handlers
          /\ metadata = HealthyMetadata
    /\ startPc = "running"
    /\ fatal = NoError
    /\ Idle

\* doMetadataRequest(ctx, url) is called
ReqBegin(url) ==
    /\ reqPc = "idle"
    /\ reqCall < MaxFetches
    /\ reqCall' = reqCall + 1
    /\ reqUrl' = url
    /\ IF NeedsToken(reqToken)
       THEN reqPc' = "put" /\ reqToken' = ""
       ELSE reqPc' = "get" /\ reqToken' = reqToken
    /\ UNCHANGED <<reqLog, reqResult>>
    /\ UNCHANGED <<startVars, now, supVars, provVars, dispVars, taskVars>>

\* token, err := p.getMetadataToken(ctx); if err != nil { return "", err }
TokenPut ==
    /\ reqPc = "put"
    /\ \E res \in TokenAnswers(reqCall) :
          LET t == getMetadataToken(res)
          IN  /\ reqLog' = Append(reqLog, Request("PUT", reqCall, "token",
                                                  t.err = "nil", res.status, t.token))
              /\ reqToken' = t.token
              /\ IF t.err # "nil"
                 THEN /\ reqPc' = "idle"
                      /\ reqResult' = [body |-> "", err |-> t.err]
                 ELSE /\ reqPc' = "get"
                      /\ reqResult' = reqResult
    /\ UNCHANGED <<reqCall, reqUrl>>
    /\ UNCHANGED <<startVars, now, supVars, provVars, dispVars, taskVars>>

\* the GET with the token header, and the return of doMetadataRequest
MetadataGet ==
    /\ reqPc = "get"
    /\ \E res \in HttpResponses({"i-0abc"}) :
          /\ reqLog' = Append(reqLog, Request("GET", reqCall, reqUrl,
                                              ~res.failed, res.status, reqToken))
          /\ reqResult' = doMetadataRequest(res)
    /\ reqPc' = "idle"
    /\ UNCHANGED <<reqCall, reqUrl, reqToken>>
    /\ UNCHANGED <<startVars, now, supVars, provVars, dispVars, taskVars>>

FetchNext ==
    \/ \E url \in MetadataUrls : ReqBegin(url)
    \/ TokenPut
    \/ MetadataGet

FetchSpec == FetchInit /\ [][FetchNext]_vars

-----------------------------------------------------------------------------
(* Dispatcher: broadcastTerminationEvents *)

\* case event := <-terminationEvent, the rendezvous with the sender's e <- t;
\* handlerWg and results are created afresh for the event
DispRecv ==
    /\ Up
    /\ \/ dispPc = "select"
       \/ dispPc = "parked" /\ ~cancelled
    /\ SendReady
    /\ event' = emEvent
    /\ emitted' = emitted + 1
    /\ emittedAfterCancel' = (emittedAfterCancel \/ cancelled)
    /\ emPc' = IF provider = ProviderDummy THEN "done" ELSE "sent"
    /\ dispPc' = "fanout"
    /\ results' = <<>>
    /\ resultsClosed' = FALSE
    /\ handlerWg' = 0
    /\ consumedLog' = <<>>
    /\ successCount' = 0
    /\ started' = [h \in H |-> 0]
    /\ hSeen' = [h \in H |-> NoEvent]
    /\ hErr' = [h \in H |-> "none"]
    /\ UNCHANGED <<provPc, mu, inFlight, probeDead, answer, provLog, fetched, emEvent,
                   summary>>
    /\ UNCHANGED <<hPc, deadline, startedAt>>
    /\ UNCHANGED <<statics, now, supVars>>

\* the select finds no case ready and parks the dispatcher; a parked select
\* is woken by the first case that becomes ready
DispPark ==
    /\ Up
    /\ dispPc = "select"
    /\ ~SendReady
    /\ ~cancelled
    /\ dispPc' = "parked"
    /\ UNCHANGED <<event, results, resultsClosed, handlerWg, consumedLog,
                   successCount, summary>>
    /\ UNCHANGED <<statics, now, supVars, provVars, taskVars>>

\* a dispatcher that takes ctx.Done() wherever it is
DispAnywhere == dispPc \in {"select", "parked", "fanout", "collect"}

\* the dispatcher is at the select of its loop
DispAtSelect == dispPc \in {"select", "parked"}

\* case <-ctx.Done(): return (and the deferred wg.Done())
DispCtxDone ==
    /\ Up
    /\ DispAtSelect
    /\ cancelled
    /\ dispPc' = "done"
    /\ wg' = wg - 1
    /\ UNCHANGED <<supPc, sigPending, cancelled, doneClosed, shutdownDeadline, shutdownLog, monPc>>
    /\ UNCHANGED <<event, results, resultsClosed, handlerWg, consumedLog,
                   successCount, summary>>
    /\ UNCHANGED <<statics, now, provVars, taskVars>>

\* a fan-out that stops after the first handler
FanOutFirstOnly == {h \in H : h = 1}

\* the handlers the fan-out loop starts a task for
FanOutTargets == H

\* for _, handler := range handlers { handlerWg.Add(1); go func(h) {...}(handler) }
\* and the goroutine that closes results after handlerWg.Wait()
DispFanOut ==
    /\ Up
    /\ dispPc = "fanout"
    /\ hPc' = [h \in H |-> IF h \in FanOutTargets THEN "new" ELSE hPc[h]]
    /\ handlerWg' = Cardinality(FanOutTargets)
    /\ dispPc' = "collect"
    /\ UNCHANGED <<event, results, resultsClosed, consumedLog, successCount, summary>>
    /\ UNCHANGED <<deadline, startedAt, hSeen, started, hErr>>
    /\ UNCHANGED <<statics, now, supVars, provVars>>

\* the timeout handed to context.WithTimeout for a handler task
HandlerTimeout == HandlerProcessingTimeout

\* a handler task that leaves the captured event as it was received
OverrideNothing(e) == e

\* the node-name override a handler task writes into the captured event
OverrideHostname(e) ==
    IF config.NodeName # "" THEN [e EXCEPT !.Hostname = config.NodeName] ELSE e

\* handler task: handlerCtx, cancel := context.WithTimeout(ctx, ...); the
\* node-name override; err := h.HandleTermination(handlerCtx, event) is
\* entered.  A nil handler dereferences its receiver there and the unrecovered
\* panic ends the process.
HStart(h) ==
    /\ Up
    /\ hPc[h] = "new"
    /\ startedAt' = [startedAt EXCEPT ![h] = now]
    /\ deadline' = [deadline EXCEPT ![h] = now + HandlerTimeout]
    /\ event' = OverrideHostname(event)
    /\ IF handlers[h].isNil
       THEN /\ supPc' = "panicked"
            /\ UNCHANGED <<hPc, hSeen, started>>
       ELSE /\ hSeen' = [hSeen EXCEPT ![h] = event']
            /\ started' = [started EXCEPT ![h] = @ + 1]
            /\ hPc' = [hPc EXCEPT ![h] = "running"]
            /\ supPc' = supPc
    /\ UNCHANGED <<sigPending, cancelled, wg, doneClosed, shutdownDeadline, shutdownLog, monPc>>
    /\ UNCHANGED <<dispPc, results, resultsClosed, handlerWg, consumedLog,
                   successCount, summary>>
    /\ UNCHANGED <<statics, now, provVars, hErr>>

\* validateTerminationEvent of the Telegram handler
validateTerminationEvent(e) ==
    IF e.Hostname = "" THEN "hostname cannot be empty"
    ELSE IF e.InstanceID = "" THEN "instance ID cannot be empty"
    ELSE IF e.Reason = "" THEN "termination reason cannot be empty"
    ELSE "nil"

\* handlerCtx.Err() at this moment
CtxErr(h) ==
    IF cancelled THEN "context canceled"
    ELSE IF now >= deadline[h] THEN "context deadline exceeded"
    ELSE "nil"

\* what Nodes().List may return for the filter Name == host in a cluster with
\* the given node names: an error, or the nodes of that name
NomadListings(host, cluster) ==
    {[err |-> "failed", names |-> {}],
     [err |-> "nil", names |-> {n \in cluster : n = host}]}

\* HandleTermination of the Nomad handler: the error it returns for a listing
\* and the error of UpdateDrain; without a node of the event's hostname it
\* returns the error of the listing
NomadHandleTermination(e, listing, drainErr) ==
    IF listing.err # "nil" THEN listing.err
    ELSE IF e.Hostname \notin listing.names THEN listing.err
    ELSE drainErr

\* the errors HandleTermination of handler h may return now
Outcomes(h) ==
    LET n == handlers[h].name
    IN  IF n = "dummy" THEN {"nil"}
        ELSE IF n = "telegram" /\ validateTerminationEvent(hSeen[h]) # "nil"
             THEN {validateTerminationEvent(hSeen[h])}
        ELSE IF HonoursCtx(n) THEN {"nil", "failed", CtxErr(h)}
        ELSE {NomadHandleTermination(hSeen[h], l, d) :
                  l \in NomadListings(hSeen[h].Hostname, env.nomadNodes),
                  d \in {"nil", "failed"}}

\* a results channel one slot short of the number of handlers
ResultsCapacityShort == Len(handlers) - 1

\* results := make(chan HandlerResult, len(handlers))
ResultsCapacity == Len(handlers)

\* the result record a handler task writes for the error its handler returned
HandlerResult(h, err) == [HandlerName |-> handlers[h].name, Error |-> err]

\* handler task: HandleTermination returns, results <- HandlerResult{...},
\* then the deferred cancel() and handlerWg.Done()
HReturn(h) ==
    /\ Up
    /\ hPc[h] = "running"
    /\ Len(results) < ResultsCapacity
    /\ \E err \in Outcomes(h) :
          /\ hErr' = [hErr EXCEPT ![h] = err]
          /\ results' = Append(results, HandlerResult(h, err))
    /\ handlerWg' = handlerWg - 1
    /\ hPc' = [hPc EXCEPT ![h] = "done"]
    /\ UNCHANGED <<dispPc, event, resultsClosed, consumedLog, successCount, summary>>
    /\ UNCHANGED <<deadline, startedAt, hSeen, started>>
    /\ UNCHANGED <<statics, now, supVars, provVars>>

\* a closer that does not wait for the handler tasks
CloseWithoutWaiting == TRUE

\* handlerWg.Wait() has returned
AllHandlersReturned == handlerWg = 0

\* go func() { handlerWg.Wait(); close(results) }()
CloserClose ==
    /\ Up
    /\ dispPc = "collect"
    /\ AllHandlersReturned
    /\ ~resultsClosed
    /\ resultsClosed' = TRUE
    /\ UNCHANGED <<dispPc, event, results, handlerWg, consumedLog, successCount, summary>>
    /\ UNCHANGED <<statics, now, supVars, provVars, taskVars>>

\* an aggregation that counts every result as a success
CountEveryResult(n, r) == n + 1

\* the aggregation loop's count after one more result
CountResult(n, r) == IF r.Error # "nil" THEN n ELSE n + 1

\* for result := range results { ... }: one iteration
DispConsume ==
    /\ Up
    /\ dispPc = "collect"
    /\ results # <<>>
    /\ consumedLog' = Append(consumedLog, Head(results))
    /\ successCount' = CountResult(successCount, Head(results))
    /\ results' = Tail(results)
    /\ UNCHANGED <<dispPc, event, resultsClosed, handlerWg, summary>>
    /\ UNCHANGED <<statics, now, supVars, provVars, taskVars>>

\* a range loop that ends as soon as it finds the channel empty
RangeEndedWhenEmpty == results = <<>>

\* for result := range results ends: the channel is closed and drained
RangeEnded == results = <<>> /\ resultsClosed

\* the range loop ends; the summary is logged and the dispatcher goes back to
\* the select
DispSummary ==
    /\ Up
    /\ dispPc = "collect"
    /\ RangeEnded
    /\ summary' = Append(summary,
                         [total_handlers      |-> Len(handlers),
                          successful_handlers |-> successCount,
                          failed_handlers     |-> Len(handlers) - successCount,
                          at                  |-> now])
    /\ dispPc' = "select"
    /\ UNCHANGED <<event, results, resultsClosed, handlerWg, consumedLog, successCount>>
    /\ UNCHANGED <<statics, now, supVars, provVars, taskVars>>

-----------------------------------------------------------------------------
(* Time *)

\* the deadlines of the timers that are armed and have not fired yet
PendingTimers ==
    {deadline[h] : h \in {k \in H : hPc[k] = "running" /\ deadline[k] > now}}
        \cup (IF supPc = "shutdownWait" /\ shutdownDeadline > now
              THEN {shutdownDeadline} ELSE {})

\* time passes until the next armed timer fires
Tick ==
    /\ Up
    /\ PendingTimers # {}
    /\ now' = CHOOSE t \in PendingTimers : \A u \in PendingTimers : t <= u
    /\ UNCHANGED <<statics, supVars, provVars, dispVars, taskVars>>

-----------------------------------------------------------------------------

Next ==
    \/ SupSpawnMonitor
    \/ SupSpawnDispatcher
    \/ Signal
    \/ SupShutdown
    \/ WaiterClose
    \/ SupAllStopped
    \/ SupTimeout
    \/ MonitorStart
    \/ ProvTick
    \/ MetadataAnswer
    \/ ProvProbeReturn
    \/ ProvCtxDone
    \/ EmitFetch
    \/ DummyWake
    \/ EmitUnlock
    \/ DispRecv
    \/ DispPark
    \/ DispCtxDone
    \/ DispFanOut
    \/ \E h \in H : HStart(h)
    \/ \E h \in H : HReturn(h)
    \/ CloserClose
    \/ DispConsume
    \/ DispSummary
    \/ Tick

Spec == Init /\ [][Next]_vars

MonitorSpec == MonInit /\ [][Next]_vars

NomadSpec == NomadInit /\ [][Next]_vars

\* time passes and main is scheduled; nothing is assumed about the tasks
FairSpec == Spec /\ WF_vars(Tick) /\ WF_vars(SupTimeout)

\* main goes on to spawn the dispatcher, the dispatcher's select takes a
\* ready receive, the fan-out loop runs and every spawned handler task is
\* scheduled; nothing is assumed about signals or about the handlers' clients
LiveSpec ==
    /\ Spec
    /\ WF_vars(SupSpawnDispatcher)
    /\ WF_vars(DispRecv)
    /\ WF_vars(DispFanOut)
    /\ WF_vars(\E h \in H : HStart(h))

-----------------------------------------------------------------------------
(* Auxiliary predicates *)

\* a step of one of the spawned tasks
TaskStep ==
    \/ MonitorStart
    \/ ProvTick
    \/ MetadataAnswer
    \/ ProvProbeReturn
    \/ ProvCtxDone
    \/ EmitFetch
    \/ DummyWake
    \/ EmitUnlock
    \/ DispRecv
    \/ DispPark
    \/ DispCtxDone
    \/ DispFanOut
    \/ \E h \in H : HStart(h)
    \/ \E h \in H : HReturn(h)
    \/ CloserClose
    \/ DispConsume
    \/ DispSummary

\* a step the process takes without anything arriving from outside
InternalStep ==
    \/ TaskStep
    \/ Tick
    \/ SupSpawnMonitor
    \/ SupSpawnDispatcher
    \/ SupShutdown
    \/ WaiterClose
    \/ SupAllStopped
    \/ SupTimeout

\* every spawned task has returned
AllTasksReturned ==
    /\ monPc = "done"
    /\ provPc = "done"
    /\ emPc \in {"none", "done"}
    /\ dispPc = "done"
    /\ \A h \in H : hPc[h] \in {"none", "done"}

\* the summary of the event received last has been logged
SummaryLogged == Len(summary) >= 1 /\ Len(summary) = emitted

\* the records the aggregation loop consumed for handler h
ConsumedFor(h) ==
    {i \in 1..Len(consumedLog) : consumedLog[i].HandlerName = handlers[h].name}

\* the event passes the checks of validateTerminationEvent
WellFormed(e) == validateTerminationEvent(e) = "nil"

\* the handler tasks that have assigned event.Hostname of the `event` variable
\* their closures capture (if config.NodeName != "" { event.Hostname = ... })
EventWriters ==
    {h \in H : hPc[h] \in {"running", "done"} /\ config.NodeName # ""}

\* the handler tasks that have read the captured `event` variable to pass it
\* to HandleTermination
EventReaders == {h \in H : hPc[h] \in {"running", "done"}}

\* main has got a handler list from RegisterHandlers without an error
Registered_ok ==
    \/ startPc \in {"detect", "running"}
    \/ startPc = "exited" /\ fatal.at = "detect"

\* the number of entries of the handler list that carry the name n
Entries(n) == Cardinality({i \in 1..Len(handlers) : handlers[i].name = n})

\* this step is the return of isSpotTerminationDetected to the polling loop
ProbeReturns == provPc = "probe" /\ answer # NoAnswer /\ provPc' # "probe"

\* the polling loop is idle at its select with no emission task spawned
StillPolling(pc, locked, em) == pc = "select" /\ ~locked /\ em = "none"

-----------------------------------------------------------------------------
(* Claims *)

\* C1: at most one notice probe of the provider is in flight, and while a probe
\* is in flight the provider's lock is held (the probe is issued after the
\* try-lock succeeded and the lock is not released before the probe returns).
C1_SingleProbeUnderLock ==
    /\ inFlight <= 1
    /\ inFlight = 1 => (mu /\ provPc = "probe")

C1_Witness == inFlight = 1 /\ mu /\ provider = ProviderAlicloud

\* C2: the provider completes at most one send on the termination channel;
\* once an event has been sent the polling loop has exited and no probe is in
\* flight.
C2_EmitsAtMostOnce ==
    /\ emitted <= 1
    /\ emitted = 1 => (provPc = "done" /\ inFlight = 0)

C2_Witness == emitted = 1 /\ provider = ProviderAWS /\ ~mu /\ emPc = "done"

\* C3: no send on the termination channel completes after the root scope has
\* been cancelled.
C3_NoEmitAfterCancel == ~emittedAfterCancel

\* C4: once the root scope is cancelled every spawned task terminates: in a
\* state where the scope is cancelled and no task can take a step any more,
\* every task has returned.
C4_TasksReturnAfterCancel ==
    (cancelled /\ Up /\ ~ENABLED TaskStep) => AllTasksReturned

C6_ShutdownCompletes ==
    /\ [](supPc \in {"shutdownWait", "exited"} => cancelled)
    /\ (supPc = "shutdownWait") ~> (supPc = "exited")

C6_Witness ==
    /\ supPc = "exited"
    /\ shutdownLog = "timeout waiting for goroutines to stop"
    /\ dispPc = "collect"
    /\ \E h \in H : hPc[h] = "running"

\* C7: when the summary of an event is logged, every handler task has written
\* its result and the aggregation loop has consumed exactly one result per
\* registered handler.
C7_OneResultPerHandler ==
    SummaryLogged =>
        /\ Len(consumedLog) = Len(handlers)
        /\ results = <<>>
        /\ \A h \in H : hPc[h] = "done" /\ Cardinality(ConsumedFor(h)) = 1

C7_Witness == SummaryLogged /\ Len(handlers) >= 2

\* C8: HandleTermination is entered at most once per handler and event, and
\* when the summary is logged it has been entered exactly once for every
\* registered handler, also when another handler returned an error before.
C8_EveryHandlerStartedOnce ==
    /\ \A h \in H : started[h] <= 1
    /\ SummaryLogged => \A h \in H : started[h] = 1

C8_Witness ==
    /\ SummaryLogged
    /\ Len(handlers) >= 2
    /\ consumedLog[1].Error # "nil"
    /\ \A h \in H : started[h] = 1

\* C9: the summary counts as failed exactly the handlers that returned an
\* error (a deadline or cancellation error included), each handler's record
\* carries the error that handler returned, and successes + failures = N.
C9_FailuresAreFailuresOfThatHandlerOnly ==
    SummaryLogged =>
        LET s == summary[Len(summary)]
        IN  /\ s.successful_handlers + s.failed_handlers = Len(handlers)
            /\ s.successful_handlers = Cardinality({h \in H : hErr[h] = "nil"})
            /\ s.failed_handlers = Cardinality({h \in H : hErr[h] # "nil"})
            /\ \A h \in H : \A i \in ConsumedFor(h) : consumedLog[i].Error = hErr[h]

C9_Witness ==
    /\ SummaryLogged
    /\ \E h \in H : hErr[h] = "context deadline exceeded"
    /\ \E h \in H : hErr[h] = "nil"
    /\ summary[Len(summary)].failed_handlers = 1

\* C10: the deadline of every handler task is the time its context was
\* created plus the configured handler.processing_timeout.
C10_DeadlineFromConfig ==
    \A h \in H : hPc[h] \in {"running", "done"} =>
        deadline[h] = startedAt[h] + config.ProcessingTimeout

\* C11: every event a provider has sent on the termination channel has a
\* non-empty hostname, a non-empty instance ID and a non-empty reason, whatever
\* the metadata service answered.
C11_EmittedEventWellFormed == emitted >= 1 => WellFormed(emEvent)

\* C12: for a received event that is not well-formed, HandleTermination is not
\* entered for any handler.
C12_MalformedEventNotHandled ==
    (emitted >= 1 /\ ~WellFormed(emEvent)) => \A h \in H : started[h] = 0

\* C13: every handler is called with the event the provider sent, except that
\* the hostname is the configured node name when that is non-empty.
C13_HostnameOverride ==
    \A h \in H : started[h] >= 1 =>
        /\ hSeen[h].Hostname = IF config.NodeName # "" THEN config.NodeName
                               ELSE emEvent.Hostname
        /\ hSeen[h].PrivateIP = emEvent.PrivateIP
        /\ hSeen[h].InstanceID = emEvent.InstanceID
        /\ hSeen[h].Reason = emEvent.Reason

C13_Witness ==
    /\ config.NodeName = "worker-17"
    /\ Len(handlers) >= 2
    /\ \A h \in H : started[h] = 1 /\ hSeen[h].Hostname = "worker-17"
    /\ emEvent.Hostname = "ip-10-0-0-5.ec2.internal"
    /\ \A h \in H : hSeen[h].InstanceID = "i-0abc"

\* C14: no variable written by one handler task is read or written by another
\* handler task of the same event.
C14_NoSharedMutableState ==
    \A h1 \in EventWriters : \A h2 \in EventWriters \cup EventReaders : h1 = h2

\* C15: an event the emission task is ready to send is received by the
\* dispatcher and HandleTermination is entered for every registered handler,
\* unless the root scope is cancelled in the meantime.
C15_EventDelivered ==
    (emPc = "send") ~>
        (cancelled \/ (emitted = 1 /\ \A h \in H : started[h] = 1))

C15_Witness ==
    /\ ~cancelled
    /\ provider = ProviderAWS
    /\ emitted = 1
    /\ emPc = "done"
    /\ Len(handlers) >= 2
    /\ \A h \in H : started[h] = 1 /\ hSeen[h] = emEvent

\* C16: with a provider name configured, only the provider of that name
\* (compared without regard to case) is probed and selected, and it is
\* selected only if it is in the list and supported; otherwise start-up ends
\* fatally, whatever the auto-detect flag says.
C16_StrictSelection ==
    config.ProviderName # "" =>
        LET named == ToLower(config.ProviderName)
            usable == /\ \E i \in 1..Len(env.providers) : env.providers[i] = named
                      /\ named \in env.supported
        IN  /\ \A i \in 1..Len(probed) : probed[i] = named
            /\ startPc = "running" => (provider = named /\ usable)
            /\ fatal.at = "detect" => ~usable
            /\ (startPc \in {"running", "exited"} /\ ~usable) =>
                   (startPc = "exited" /\ provider = "nil")

C16_Witness ==
    /\ config.ProviderName = "gcp"
    /\ config.AutoDetect
    /\ ProviderAWS \in env.supported
    /\ startPc = "exited"
    /\ fatal = Fatal("detect", "no supported provider detected")
    /\ probed = <<>>

\* C17: with no provider name and auto-detect on, the provider selected is the
\* first of the list that is supported, and start-up ends fatally at the
\* selection exactly when no provider of the list is supported.
C17_FirstSupported ==
    (config.ProviderName = "" /\ config.AutoDetect) =>
        LET S == {i \in 1..Len(env.providers) : env.providers[i] \in env.supported}
        IN  /\ startPc = "running" =>
                   \E i \in S : /\ provider = env.providers[i]
                                 /\ \A j \in S : i <= j
            /\ fatal.at = "detect" => S = {}
            /\ (startPc \in {"running", "exited"} /\ fatal.at \notin {"load", "register"}
                   /\ S = {}) => (startPc = "exited" /\ provider = "nil")

C17_Witness ==
    /\ config.ProviderName = ""
    /\ config.AutoDetect
    /\ env.supported = {ProviderAlicloud, ProviderDummy}
    /\ env.providers = providers
    /\ startPc = "running"
    /\ provider = ProviderAlicloud
    /\ probed = <<ProviderAWS, ProviderAlicloud>>

\* C18: with no provider name and auto-detect off, start-up ends fatally, no
\* provider is selected, no IsSupported is called and nothing is spawned.
C18_NothingSelected ==
    (config.ProviderName = "" /\ ~config.AutoDetect) =>
        /\ startPc \in {"load", "exited"}
        /\ provider = "nil"
        /\ probed = <<>>
        /\ monPc = "none" /\ provPc = "none" /\ emPc = "none"
        /\ DetectProvider(env.providers, config, env.supported) = Detection("nil", <<>>)

C18_Witness ==
    /\ config.ProviderName = ""
    /\ ~config.AutoDetect
    /\ startPc = "exited"
    /\ fatal = Fatal("load", "provider.name must be set")
    /\ env.supported = {ProviderAWS, ProviderAlicloud, ProviderDummy}

C20_TelegramNeedsTokenAndChat ==
    (startPc # "load" /\ fatal.at # "load" /\ config.TelegramEnabled) =>
        (config.BotToken # "" /\ config.ChatID # "")

\* C21: with both the Kubernetes and the Nomad handler enabled the load
\* fails, whatever the other settings are, and no handler list ever holds both
\* orchestrator handlers.
C21_OrchestratorsExclusive ==
    /\ (startPc # "load" /\ config.KubernetesEnabled /\ config.NomadEnabled) =>
           (startPc = "exited" /\ fatal.at = "load")
    /\ LET names == {handlers[i].name : i \in 1..Len(handlers)}
       IN  ~("kubernetes" \in names /\ "nomad" \in names)

C21_Witness ==
    /\ config.KubernetesEnabled /\ config.NomadEnabled
    /\ config.TelegramEnabled /\ config.BotToken # "" /\ config.ChatID # ""
    /\ config.ProviderName = "aws"
    /\ startPc = "exited"
    /\ fatal = Fatal("load",
          "handler.kubernetes and handler.nomad cannot be enabled at the same time")

\* C22: start-up gets past the registration only with a handler list that
\* holds at least one handler whose construction succeeded.
C22_EmptyListIsFatal ==
    Registered_ok => \E i \in 1..Len(handlers) : ~handlers[i].isNil

C24_ErrorNeverEmits ==
    [][ProbeReturns =>
          IF ~answer.failed /\ answer.status = 200
          THEN doMetadataRequest(answer) = [body |-> answer.body, err |-> "nil"]
          ELSE /\ doMetadataRequest(answer).err # "nil"
               /\ StillPolling(provPc', mu', emPc')
               /\ emitted' = 0]_vars

C24_Witness ==
    /\ provider = ProviderAlicloud
    /\ provLog = Log("error", "failed to detect spot termination", "status")
    /\ StillPolling(provPc, mu, emPc)
    /\ emitted = 0

\* C25: the GCP provider takes a probe for a preemption notice only when the
\* answer is status 200 with the body "TRUE"; on any other answer it spawns no
\* emission task and keeps polling.
C25_GcpNoticeOnlyOnTrue ==
    [][(provider = ProviderGcp /\ ProbeReturns) =>
          IF ~answer.failed /\ answer.status = 200 /\ answer.body = "TRUE"
          THEN emPc' = "fetch"
          ELSE StillPolling(provPc', mu', emPc')]_vars

C27_FailedProbeNotFatal ==
    /\ [](provPc = "select" => (~mu /\ inFlight = 0))
    /\ []((provPc = "select" /\ Up) => ENABLED ProvTick)
    /\ [][(ProbeReturns /\ emPc' # "fetch") =>
              (StillPolling(provPc', mu', emPc') /\ inFlight' = 0 /\ emitted' = 0)]_vars
    /\ [][(ProbeReturns /\ emPc' = "fetch") =>
              (~answer.failed /\ answer.status = 200)]_vars

C27_Witness ==
    /\ provider = ProviderAlicloud
    /\ provLog = Log("error", "failed to detect spot termination", "status")
    /\ provPc = "probe"
    /\ answer = NotFound
    /\ mu
    /\ emitted = 0 /\ emPc = "none"

\* C28: a probe of the AliCloud provider that was answered 404 makes the
\* polling loop log nothing above info.
C28_NotFoundLogsNothingAboveInfo ==
    [][(provider = ProviderAlicloud /\ ProbeReturns /\ answer = NotFound) =>
          provLog'.level \notin AboveInfo]_vars

\* C29: the emission task reaches its send whatever the three field requests
\* were answered; a field whose request failed is "unknown", a field whose
\* request succeeded is the body fetched.
C29_UnknownForFailedFields ==
    /\ (emPc = "fetch" /\ Up) => ENABLED EmitFetch
    /\ (provider \in {ProviderAWS, ProviderAlicloud} /\ emPc \in {"send", "sent", "done"}) =>
           /\ \A f \in {"Hostname", "PrivateIP", "InstanceID"} :
                  emEvent[f] = IF fetched[f].failed \/ fetched[f].status # 200
                               THEN "unknown" ELSE fetched[f].body
           /\ emEvent.Reason = "spot termination"

C29_Witness ==
    /\ provider = ProviderAWS
    /\ emitted = 1
    /\ fetched.Hostname = TransportError
    /\ fetched.PrivateIP = NotFound
    /\ fetched.InstanceID.status = 200
    /\ emEvent = [Hostname |-> "unknown", PrivateIP |-> "unknown",
                  InstanceID |-> "i-0abc", Reason |-> "spot termination"]
    /\ \E h \in H : started[h] = 1 /\ hSeen[h] = emEvent

C32_TelegramBuiltOnlyWithCredentials ==
    /\ \A t \in BotTokens, ch \in ChatIDs :
          (t = "" \/ ch = "" \/ ParseInt(ch).err # "nil") =>
              NewTelegramHandler(t, ch) # "nil"
    /\ Registered_ok =>
          \A i \in 1..Len(handlers) :
              (handlers[i].name = "telegram" /\ ~handlers[i].isNil) =>
                  /\ config.BotToken # ""
                  /\ config.ChatID # ""
                  /\ ParseInt(config.ChatID).err = "nil"

C32_Witness ==
    /\ startPc = "running"
    /\ config.TelegramEnabled /\ config.KubernetesEnabled
    /\ config.BotToken # ""
    /\ config.ChatID = "@evacuator_alerts"
    /\ \E i \in 1..Len(handlers) : handlers[i].name = "telegram" /\ handlers[i].isNil
    /\ \E i \in 1..Len(handlers) : handlers[i].name = "kubernetes" /\ ~handlers[i].isNil

\* C33: from the spawning of the emission task until the event has been
\* written the provider's lock is held and the polling loop has returned; the
\* task fetches, then sends, then unlocks, and only the task's unlock after
\* the send releases the lock.
C33_LockHeldUntilEventWritten ==
    /\ []((provider # ProviderDummy /\ emPc \in {"fetch", "send", "sent"}) =>
             (mu /\ provPc = "done" /\ inFlight = 0))
    /\ []((provider # ProviderDummy /\ emPc = "send") => emitted = 0)
    /\ [][(provider # ProviderDummy /\ emPc' # emPc) =>
             <<emPc, emPc'>> \in {<<"none", "fetch">>, <<"fetch", "send">>,
                                  <<"send", "sent">>, <<"sent", "done">>}]_vars
    /\ [][(ProbeReturns /\ emPc' = "fetch") => (mu /\ mu' /\ provPc' = "done")]_vars
    /\ [][(provider # ProviderDummy /\ emPc # "none" /\ mu /\ ~mu') =>
             (emPc = "sent" /\ emPc' = "done" /\ emitted = 1)]_vars

C33_Witness ==
    /\ provider = ProviderAWS
    /\ emPc = "sent"
    /\ emitted = 1
    /\ mu
    /\ provPc = "done"
    /\ dispPc = "collect"

\* C34: whenever the polling loop is at its select the lock is free, so the
\* try-lock of every tick succeeds; the lock is held only by the probe running
\* inside the loop or, after the loop has returned, by the emission task, and
\* the "check already in progress" record is never logged.
C34_TryLockAlwaysSucceeds ==
    /\ provPc = "select" => TryLock(mu).ok
    /\ mu => \/ provPc = "probe" /\ emPc = "none"
             \/ provPc = "done" /\ emPc \in {"fetch", "send", "sent"}
    /\ provLog.level # "debug"

C34_Witness ==
    /\ provider = ProviderAWS
    /\ provPc = "probe"
    /\ mu
    /\ inFlight = 1
    /\ provLog.level = "error"
    /\ answer = NoAnswer

\* C35: when main has logged "all goroutines stopped successfully" the
\* provider's polling loop and its emission task have returned.
C35_AllStoppedMeansProviderStopped ==
    shutdownLog = "all goroutines stopped successfully" =>
        /\ provPc \in {"none", "done"}
        /\ emPc \in {"none", "done"}

\* C36: the results channel of an event has room for one result per handler:
\* a handler task that has its result can always write it; the channel is
\* closed only when all N tasks have written, stays closed until the next
\* event has a channel of its own, and nothing is written to it once closed.
C36_ResultSinkNeverBlocks ==
    /\ [](Len(results) + Len(consumedLog) <= Len(handlers))
    /\ [](\A h \in H : (Up /\ hPc[h] = "running") => ENABLED HReturn(h))
    /\ [](resultsClosed =>
             /\ \A h \in H : hPc[h] = "done"
             /\ Len(results) + Len(consumedLog) = Len(handlers))
    /\ [][(~resultsClosed /\ resultsClosed') =>
             (handlerWg = 0 /\ \A h \in H : hPc[h] = "done")]_vars
    /\ [][(resultsClosed /\ ~resultsClosed') => (dispPc' = "fanout" /\ results' = <<>>)]_vars
    /\ [][(resultsClosed /\ resultsClosed') => Len(results') <= Len(results)]_vars

C36_Witness ==
    /\ Len(handlers) >= 2
    /\ dispPc = "collect"
    /\ resultsClosed
    /\ Len(results) = Len(handlers)
    /\ consumedLog = <<>>

\* C37: the dispatcher returns only from the select of its loop and only
\* when the root context is cancelled; between the receipt of an event and
\* the summary its steps do not depend on the root context, and it leaves the
\* aggregation only by logging the summary.
C37_DispatcherFinishesEvent ==
    /\ [][(dispPc # "done" /\ dispPc' = "done") =>
             (dispPc \in {"select", "parked"} /\ cancelled)]_vars
    /\ [][(dispPc \in {"fanout", "collect"} /\ dispPc' # dispPc) =>
             \/ dispPc = "fanout" /\ dispPc' = "collect"
             \/ dispPc = "collect" /\ dispPc' = "select"
                   /\ Len(summary') = Len(summary) + 1]_vars
    /\ []((Up /\ dispPc = "fanout") => ENABLED DispFanOut)
    /\ []((Up /\ dispPc = "collect" /\ results # <<>>) => ENABLED DispConsume)
    /\ []((Up /\ dispPc = "collect" /\ RangeEnded) => ENABLED DispSummary)

C37_Witness ==
    /\ cancelled
    /\ ~emittedAfterCancel
    /\ emitted = 1
    /\ Len(summary) = 1
    /\ shutdownDeadline > 0
    /\ summary[1].at >= shutdownDeadline
    /\ dispPc = "select"

\* C38: the dispatcher logs the summary of an event only when every handler
\* task has returned, and once they all have it can go on to the summary; a
\* handler's deadline passing enables nothing in the dispatcher, and the
\* Nomad handler never returns the error of its context.
C38_SummaryNeedsEveryHandler ==
    /\ [][(dispPc = "collect" /\ dispPc' = "select") =>
             \A h \in H : hPc[h] = "done"]_vars
    /\ []((Up /\ dispPc = "collect" /\ \A h \in H : hPc[h] = "done") =>
             ENABLED (CloserClose \/ DispConsume \/ DispSummary))
    /\ []((dispPc = "collect" /\ \E h \in H : hPc[h] = "running") =>
             ~ENABLED DispSummary)
    /\ [](\A h \in H : (handlers[h].name = "nomad" /\ hPc[h] = "running") =>
             \A err \in Outcomes(h) :
                 err \notin {"context deadline exceeded", "context canceled"})

C38_Witness ==
    /\ \E h \in H : /\ handlers[h].name = "nomad"
                     /\ hPc[h] = "running"
                     /\ now >= deadline[h]
                     /\ deadline[h] = startedAt[h] + HandlerProcessingTimeout
    /\ \E h \in H : handlers[h].name = "telegram" /\ hPc[h] = "done"
    /\ dispPc = "collect"
    /\ ~cancelled
    /\ summary = <<>>

\* C39: every entry of the handler list main gets from RegisterHandlers is a
\* handler its constructor built.
C39_OnlyConstructedHandlers ==
    Registered_ok => \A i \in 1..Len(handlers) : ~handlers[i].isNil

\* C40: when the Nomad handler finds no node of the event's hostname it
\* returns an error, and the summary of the event counts a failed handler.
C40_MissingNodeIsFailure ==
    \A h \in H :
        (/\ handlers[h].name = "nomad"
         /\ hPc[h] = "done"
         /\ hSeen[h].Hostname \notin env.nomadNodes) =>
            /\ hErr[h] # "nil"
            /\ SummaryLogged => summary[Len(summary)].failed_handlers >= 1

====
